---- MODULE Spec2Model ----
(***************************************************************************)
(* Model of the DocumentCloud add-on in src/main.py (class Vision): the    *)
(* run validates its parameters, computes and charges a credit cost, then  *)
(* walks every document and page, calls extract (retried by tenacity) and  *)
(* appends the result to a per-document csv/json file, adds that file to   *)
(* a zip archive and finally uploads the archive.                          *)
(*                                                                         *)
(* External collaborators (document count, org id, charge_credits, the     *)
(* model completion call) are inputs / nondeterministic outcomes.          *)
(***************************************************************************)
EXTENDS Integers, Sequences, FiniteSets, TLC

\* ---------------------------------------------------------------- bounds
MaxDocs == 2
MaxPageCount == 2
CostMaxPageCount == 10

\* ------------------------------------------------------ program constants
CreditsPerPage == 7
MaxAttempts == 6
DefaultEndPage == 1

MsgNoDocuments == "It looks like no documents were selected."
MsgNoOrg == "No organization to charge."
MsgNoEndPage == "No end page provided."
MsgCostEndSmaller == "You provided an end page that is smaller than the start page."
MsgInsufficient == "You do not have sufficient AI credits"
MsgMainEndSmaller == "The end page you provided is smaller than the start page"
MsgStartLessThanOne == "Your start page is less than 1"

VARIABLES
    selected,        \* get_document_count() is not None
    org_id,          \* self.org_id is truthy
    documents,       \* get_documents(): sequence of page_count, one per document
    data,            \* self.data: start_page, end_page (has_end_page), output_format
    pc,              \* position of the run
    message,         \* last set_message text ("" when none)
    exit_code,       \* sys.exit status (-1 while running / on uncaught exception)
    error,           \* uncaught exception that ended the run ("" when none)
    total_num_pages, \* calculate_cost local
    doc_index,       \* calculate_cost loop position
    cost,            \* value returned by calculate_cost
    charge_calls,    \* calls of charge_credits: [amount, ok]
    end_page,        \* main local end_page
    d,               \* main loop: index of the current document
    page_number,     \* main loop: current page
    range_stop,      \* exclusive stop of the page range of the current document
    attempt_number,  \* tenacity attempt number of the current extract call
    calls,           \* completion calls issued by the current extract call
    tables,          \* tables.tables returned by the last successful extract
    files,           \* content of tables-<id>.<fmt>, per document
    on_disk,         \* documents whose file exists
    zip_entries,     \* documents whose file was written into all_tables.zip
    created_files,   \* created_files list
    uploaded,        \* upload_file was invoked
    last_written,    \* items written by the last save_tables_to_* call
    trace            \* history of the calls made by the run

inputs == <<selected, org_id, documents, data>>
costvars == <<total_num_pages, doc_index, cost>>
pagevars == <<d, page_number, range_stop>>
retryvars == <<attempt_number, calls, tables>>
filevars == <<files, on_disk, zip_entries, created_files, last_written>>
vars == <<selected, org_id, documents, data, pc, message, exit_code, error,
          total_num_pages, doc_index, cost, charge_calls, end_page, d,
          page_number, range_stop, attempt_number, calls, tables, files,
          on_disk, zip_entries, created_files, uploaded, last_written, trace>>

Min(a, b) == IF a <= b THEN a ELSE b

\* ------------------------------------------------------------ input sets
DocLists(maxpc) == UNION {[1..n -> 1..maxpc] : n \in 0..MaxDocs}
StartPages == 0..MaxPageCount
EndPages == 0..MaxPageCount
Formats == {"csv", "json"}

\* model responses: no table, or two tables (one with a data row, one without)
Table1 == [caption |-> "A", columns |-> <<"x", "y">>, values |-> << <<"1", "2">> >>]
Table2 == [caption |-> "B", columns |-> <<"z">>, values |-> << >>]
Responses == {<< >>, <<Table1, Table2>>}

Event(op, doc, page) == [op |-> op, doc |-> doc, page |-> page]

\* ------------------------------------------------------------------ Init
InitWith(doclists, formats, starts, ends) ==
    /\ selected \in BOOLEAN
    /\ org_id \in BOOLEAN
    /\ documents \in (IF selected THEN doclists ELSE {<< >>})
    /\ data \in ({[start_page |-> s, has_end_page |-> TRUE, end_page |-> e, output_format |-> f] :
                      s \in starts, e \in ends, f \in formats}
                 \cup
                 {[start_page |-> s, has_end_page |-> FALSE, end_page |-> 0, output_format |-> f] :
                      s \in starts, f \in formats})
    /\ pc = "validate"
    /\ message = ""
    /\ exit_code = -1
    /\ error = ""
    /\ total_num_pages = 0
    /\ doc_index = 1
    /\ cost = 0
    /\ charge_calls = << >>
    /\ end_page = 0
    /\ d = 1
    /\ page_number = 0
    /\ range_stop = 0
    /\ attempt_number = 0
    /\ calls = 0
    /\ tables = << >>
    /\ files = [i \in 1..Len(documents) |-> << >>]
    /\ on_disk = {}
    /\ zip_entries = << >>
    /\ created_files = << >>
    /\ uploaded = FALSE
    /\ last_written = << >>
    /\ trace = << >>

Init == InitWith(DocLists(MaxPageCount), Formats, StartPages, EndPages)

Exit(msg, code) ==
    /\ pc' = "exit"
    /\ message' = msg
    /\ exit_code' = code

\* ------------------------------------------------------------- validate
ValidateNoDocuments ==
    /\ pc = "validate"
    /\ ~selected
    /\ Exit(MsgNoDocuments, 0)
    /\ UNCHANGED <<inputs, error, costvars, charge_calls, end_page, pagevars,
                   retryvars, filevars, uploaded, trace>>

ValidateNoOrg ==
    /\ pc = "validate"
    /\ selected
    /\ ~org_id
    /\ Exit(MsgNoOrg, 0)
    /\ UNCHANGED <<inputs, error, costvars, charge_calls, end_page, pagevars,
                   retryvars, filevars, uploaded, trace>>

ValidateCalculate ==
    /\ pc = "validate"
    /\ selected
    /\ org_id
    /\ pc' = "calculate_cost"
    /\ total_num_pages' = 0
    /\ doc_index' = 1
    /\ UNCHANGED <<inputs, message, exit_code, error, cost, charge_calls, end_page,
                   pagevars, retryvars, filevars, uploaded, trace>>

\* ------------------------------------------------------- calculate_cost
CostEndBeforeStart_OffByOne(e, s) == e + 1 < s

CostEndBeforeStart(e, s) == e < s

LastPage(e, page_count) == IF e <= page_count THEN e ELSE page_count

PagesToAnalyze_NoPlusOne(e, s, page_count) == LastPage(e, page_count) - s

PagesToAnalyze(e, s, page_count) == LastPage(e, page_count) - s + 1

CalcNoEndPage ==
    /\ pc = "calculate_cost"
    /\ doc_index <= Len(documents)
    /\ ~data.has_end_page
    /\ Exit(MsgNoEndPage, 1)
    /\ UNCHANGED <<inputs, error, costvars, charge_calls, end_page, pagevars,
                   retryvars, filevars, uploaded, trace>>

CalcEndSmaller ==
    /\ pc = "calculate_cost"
    /\ doc_index <= Len(documents)
    /\ data.has_end_page
    /\ CostEndBeforeStart(data.end_page, data.start_page)
    /\ Exit(MsgCostEndSmaller, 1)
    /\ UNCHANGED <<inputs, error, costvars, charge_calls, end_page, pagevars,
                   retryvars, filevars, uploaded, trace>>

CalcCount ==
    /\ pc = "calculate_cost"
    /\ doc_index <= Len(documents)
    /\ data.has_end_page
    /\ ~CostEndBeforeStart(data.end_page, data.start_page)
    /\ total_num_pages' = total_num_pages
          + PagesToAnalyze(data.end_page, data.start_page, documents[doc_index])
    /\ doc_index' = doc_index + 1
    /\ UNCHANGED <<inputs, pc, message, exit_code, error, cost, charge_calls,
                   end_page, pagevars, retryvars, filevars, uploaded, trace>>

CalcReturn ==
    /\ pc = "calculate_cost"
    /\ doc_index > Len(documents)
    /\ cost' = total_num_pages * CreditsPerPage
    /\ pc' = "charge_credits"
    /\ UNCHANGED <<inputs, message, exit_code, error, total_num_pages, doc_index,
                   charge_calls, end_page, pagevars, retryvars, filevars,
                   uploaded, trace>>

\* ------------------------------------------ charge_credits / validate end
ChargeSucceeds ==
    /\ pc = "charge_credits"
    /\ charge_calls' = Append(charge_calls, [amount |-> cost, ok |-> TRUE])
    /\ trace' = Append(trace, Event("charge", 0, 0))
    /\ pc' = "main"
    /\ UNCHANGED <<inputs, message, exit_code, error, costvars, end_page,
                   pagevars, retryvars, filevars, uploaded>>

\* variant: the exception is swallowed and validate returns True
ChargeFails_Swallowed ==
    /\ pc = "charge_credits"
    /\ charge_calls' = Append(charge_calls, [amount |-> cost, ok |-> FALSE])
    /\ trace' = Append(trace, Event("charge_failed", 0, 0))
    /\ pc' = "main"
    /\ UNCHANGED <<inputs, message, exit_code, error, costvars, end_page,
                   pagevars, retryvars, filevars, uploaded>>

\* ValueError or APIError: validate returns False, main reports and exits
ChargeFails ==
    /\ pc = "charge_credits"
    /\ charge_calls' = Append(charge_calls, [amount |-> cost, ok |-> FALSE])
    /\ trace' = Append(trace, Event("charge_failed", 0, 0))
    /\ Exit(MsgInsufficient, 0)
    /\ UNCHANGED <<inputs, error, costvars, end_page, pagevars, retryvars,
                   filevars, uploaded>>

\* ----------------------------------------------------- main, lines 103-114
MainEndPage == IF data.has_end_page THEN data.end_page ELSE DefaultEndPage

MainEndBeforeStart(e, s) == e < s

StartTooSmall(s) == s < 1

MainEndSmaller ==
    /\ pc = "main"
    /\ end_page' = MainEndPage
    /\ MainEndBeforeStart(MainEndPage, data.start_page)
    /\ Exit(MsgMainEndSmaller, 0)
    /\ UNCHANGED <<inputs, error, costvars, charge_calls, pagevars, retryvars,
                   filevars, uploaded, trace>>

MainStartLessThanOne ==
    /\ pc = "main"
    /\ end_page' = MainEndPage
    /\ ~MainEndBeforeStart(MainEndPage, data.start_page)
    /\ StartTooSmall(data.start_page)
    /\ Exit(MsgStartLessThanOne, 0)
    /\ UNCHANGED <<inputs, error, costvars, charge_calls, pagevars, retryvars,
                   filevars, uploaded, trace>>

\* checks passed: all_tables.zip is created, the document loop starts
MainBegin ==
    /\ pc = "main"
    /\ end_page' = MainEndPage
    /\ ~MainEndBeforeStart(MainEndPage, data.start_page)
    /\ ~StartTooSmall(data.start_page)
    /\ pc' = "for_document"
    /\ d' = 1
    /\ UNCHANGED <<inputs, message, exit_code, error, costvars, charge_calls,
                   page_number, range_stop, retryvars, filevars, uploaded, trace>>

\* ------------------------------------------------ document and page loops
OuterBound_OffByOne(e, page_count) == IF e > page_count THEN page_count + 1 ELSE e

OuterBound(e, page_count) == IF e > page_count THEN page_count + 1 ELSE e + 1

RangeStop(fmt, e, page_count) ==
    IF fmt = "csv" THEN OuterBound(e, page_count) ELSE e + 1

ForDocument ==
    /\ pc = "for_document"
    /\ d <= Len(documents)
    /\ range_stop' = RangeStop(data.output_format, end_page, documents[d])
    /\ page_number' = data.start_page
    /\ pc' = "for_page"
    /\ UNCHANGED <<inputs, message, exit_code, error, costvars, charge_calls,
                   end_page, d, retryvars, filevars, uploaded, trace>>

\* next page of the range: get_large_image_url, then extract is called
ForPage ==
    /\ pc = "for_page"
    /\ page_number < range_stop
    /\ attempt_number' = 1
    /\ calls' = 0
    /\ trace' = Append(trace, Event("extract", d, page_number))
    /\ pc' = "extract"
    /\ UNCHANGED <<inputs, message, exit_code, error, costvars, charge_calls,
                   end_page, pagevars, tables, filevars, uploaded>>

ForPageDone ==
    /\ pc = "for_page"
    /\ page_number >= range_stop
    /\ pc' = "zip_write"
    /\ UNCHANGED <<inputs, message, exit_code, error, costvars, charge_calls,
                   end_page, pagevars, retryvars, filevars, uploaded, trace>>

\* ------------------------------------- extract under @retry, lines 210-238
StopAfterAttempt_OffByOne(n) == n > MaxAttempts

StopAfterAttempt(n) == n >= MaxAttempts

ExtractSucceeds ==
    /\ pc = "extract"
    /\ \E r \in Responses : tables' = r
    /\ calls' = calls + 1
    /\ trace' = Append(trace, Event("extract_returned", d, page_number))
    /\ pc' = "save"
    /\ UNCHANGED <<inputs, message, exit_code, error, costvars, charge_calls,
                   end_page, pagevars, attempt_number, filevars, uploaded>>

\* the completion call raised and the stop condition does not hold: retry
ExtractRetry ==
    /\ pc = "extract"
    /\ ~StopAfterAttempt(attempt_number)
    /\ calls' = calls + 1
    /\ attempt_number' = attempt_number + 1
    /\ UNCHANGED <<inputs, pc, message, exit_code, error, costvars, charge_calls,
                   end_page, pagevars, tables, filevars, uploaded, trace>>

\* variant: the failure of the page is caught and the loop goes on
ExtractGivesUp_Skipped ==
    /\ pc = "extract"
    /\ StopAfterAttempt(attempt_number)
    /\ calls' = calls + 1
    /\ trace' = Append(trace, Event("extract_raised", d, page_number))
    /\ page_number' = page_number + 1
    /\ pc' = "for_page"
    /\ UNCHANGED <<inputs, message, exit_code, error, costvars, charge_calls,
                   end_page, d, range_stop, attempt_number, tables, filevars,
                   uploaded>>

\* the completion call raised and the stop condition holds: RetryError
\* leaves extract and main uncaught
ExtractGivesUp ==
    /\ pc = "extract"
    /\ StopAfterAttempt(attempt_number)
    /\ calls' = calls + 1
    /\ trace' = Append(trace, Event("extract_raised", d, page_number))
    /\ error' = "RetryError"
    /\ pc' = "crashed"
    /\ UNCHANGED <<inputs, message, exit_code, costvars, charge_calls, end_page,
                   pagevars, attempt_number, tables, filevars, uploaded>>

\* ------------------------------------------------ save_tables_to_csv/json
Item(kind, n, cells, json) == [kind |-> kind, n |-> n, cells |-> cells, json |-> json]

CsvRow(cells) == Item("csv_row", 0, cells, << >>)

RECURSIVE CsvRows(_)
CsvRows(values) ==
    IF values = << >> THEN << >>
    ELSE <<CsvRow(Head(values))>> \o CsvRows(Tail(values))

\* variant: separator rows are written even when there is no table
RECURSIVE CsvTables_TrailingBlank(_)
CsvTables_TrailingBlank(ts) ==
    IF ts = << >> THEN <<CsvRow(<< >>)>>
    ELSE <<CsvRow(<<Head(ts).caption>>)>> \o CsvRows(Head(ts).values)
         \o CsvTables_TrailingBlank(Tail(ts))

RECURSIVE CsvTables(_)
CsvTables(ts) ==
    IF ts = << >> THEN << >>
    ELSE <<CsvRow(<<Head(ts).caption>>)>> \o CsvRows(Head(ts).values)
         \o <<CsvRow(<< >>), CsvRow(<< >>), CsvRow(<< >>)>>
         \o CsvTables(Tail(ts))

SaveTablesToCsv(ts, page) ==
    <<Item("csv_page_number", page, << >>, << >>)>> \o CsvTables(ts)

ColumnIndex(t, c) == CHOOSE k \in 1..Len(t.columns) : t.columns[k] = c

\* dataframe.to_dict(): column -> (row index -> value)
ToDict(t) ==
    [c \in {t.columns[k] : k \in 1..Len(t.columns)} |->
        [i \in 0..(Len(t.values) - 1) |-> t.values[i + 1][ColumnIndex(t, c)]]]

TableEncoder(t) == [caption |-> t.caption, dataframe |-> ToDict(t)]

SaveTablesToJson(ts, page) ==
    <<Item("json_page_number", page, << >>, << >>),
      Item("json_dump", 0, << >>, [k \in 1..Len(ts) |-> TableEncoder(ts[k])]),
      Item("newline", 0, << >>, << >>),
      Item("newline", 0, << >>, << >>),
      Item("newline", 0, << >>, << >>)>>

SaveChunk(fmt, ts, page) ==
    IF fmt = "csv" THEN SaveTablesToCsv(ts, page) ELSE SaveTablesToJson(ts, page)

Save ==
    /\ pc = "save"
    /\ last_written' = SaveChunk(data.output_format, tables, page_number)
    /\ files' = [files EXCEPT ![d] = @ \o last_written']
    /\ on_disk' = on_disk \cup {d}
    /\ trace' = Append(trace, Event("append", d, page_number))
    /\ page_number' = page_number + 1
    /\ pc' = "for_page"
    /\ UNCHANGED <<inputs, message, exit_code, error, costvars, charge_calls,
                   end_page, d, range_stop, retryvars, zip_entries,
                   created_files, uploaded>>

\* ------------------------------------------------------------- zipf.write
ZipWrite ==
    /\ pc = "zip_write"
    /\ d \in on_disk
    /\ zip_entries' = Append(zip_entries, d)
    /\ created_files' = Append(created_files, d)
    /\ trace' = Append(trace, Event("zip", d, 0))
    /\ d' = d + 1
    /\ pc' = "for_document"
    /\ UNCHANGED <<inputs, message, exit_code, error, costvars, charge_calls,
                   end_page, page_number, range_stop, retryvars, files, on_disk,
                   last_written, uploaded>>

\* no page was appended, the file was never opened: os.stat fails
ZipWriteMissing ==
    /\ pc = "zip_write"
    /\ d \notin on_disk
    /\ error' = "FileNotFoundError"
    /\ pc' = "crashed"
    /\ UNCHANGED <<inputs, message, exit_code, costvars, charge_calls, end_page,
                   pagevars, retryvars, filevars, uploaded, trace>>

\* ------------------------------------------------ zipf.close, upload_file
Upload ==
    /\ pc = "for_document"
    /\ d > Len(documents)
    /\ uploaded' = TRUE
    /\ trace' = Append(trace, Event("upload", 0, 0))
    /\ pc' = "done"
    /\ UNCHANGED <<inputs, message, exit_code, error, costvars, charge_calls,
                   end_page, pagevars, retryvars, filevars>>

\* ------------------------------------------------------- specifications
Next ==
    \/ ValidateNoDocuments
    \/ ValidateNoOrg
    \/ ValidateCalculate
    \/ CalcNoEndPage
    \/ CalcEndSmaller
    \/ CalcCount
    \/ CalcReturn
    \/ ChargeSucceeds
    \/ ChargeFails
    \/ MainEndSmaller
    \/ MainStartLessThanOne
    \/ MainBegin
    \/ ForDocument
    \/ ForPage
    \/ ForPageDone
    \/ ExtractSucceeds
    \/ ExtractRetry
    \/ ExtractGivesUp
    \/ Save
    \/ ZipWrite
    \/ ZipWriteMissing
    \/ Upload

Spec == Init /\ [][Next]_vars

\* validation and charging only, over documents of up to CostMaxPageCount pages
CostPages == 0..((CostMaxPageCount \div 2) + 1)

CostInit == InitWith(DocLists(CostMaxPageCount), {"csv"}, CostPages, CostPages)

CostNext ==
    \/ ValidateNoDocuments
    \/ ValidateNoOrg
    \/ ValidateCalculate
    \/ CalcNoEndPage
    \/ CalcEndSmaller
    \/ CalcCount
    \/ CalcReturn
    \/ ChargeSucceeds
    \/ ChargeFails

CostSpec == CostInit /\ [][CostNext]_vars

TypeOK ==
    /\ pc \in {"validate", "calculate_cost", "charge_credits", "main",
               "for_document", "for_page", "extract", "save", "zip_write",
               "exit", "crashed", "done"}
    /\ uploaded \in BOOLEAN
    /\ calls \in Nat

\* ------------------------------------------------- history of the run
Idx(op) == {i \in 1..Len(trace) : trace[i].op = op}

LastOp == IF trace = << >> THEN "" ELSE trace[Len(trace)].op

ClampedLast(k) == Min(data.end_page, documents[k])

EffectiveRange(k) == data.start_page .. ClampedLast(k)

RECURSIVE EffectivePagesSum(_)
EffectivePagesSum(k) ==
    IF k = 0 THEN 0
    ELSE EffectivePagesSum(k - 1) + (ClampedLast(k) - data.start_page + 1)

\* C1: for every document and both output formats, every page on which
\* extract is called or a result is appended lies in
\* start_page .. min(end_page, page_count); no page beyond the document's
\* page count is requested.
C1_PagesWithinClampedRange ==
    \A i \in Idx("extract") \cup Idx("append") :
        trace[i].page \in EffectiveRange(trace[i].doc)

\* C2: the value returned by calculate_cost, which is the amount passed to
\* charge_credits, is 7 times the sum over the documents of
\* min(end_page, page_count) - start_page + 1.
C2_CostIsSevenPerEffectivePage ==
    /\ pc = "charge_credits" => cost = 7 * EffectivePagesSum(Len(documents))
    /\ \A i \in 1..Len(charge_calls) :
          charge_calls[i].amount = 7 * EffectivePagesSum(Len(documents))

\* page counts 10 and 3, start_page 2, end_page 5: 42 credits are charged
C2_Witness ==
    /\ documents = <<10, 3>>
    /\ data.start_page = 2
    /\ data.has_end_page
    /\ data.end_page = 5
    /\ Len(charge_calls) = 1
    /\ charge_calls[1].amount = 42

BadEndPage == ~data.has_end_page \/ data.end_page < data.start_page

\* C3: with at least one document, an unset end_page or end_page < start_page
\* ends the run during validation (at the first document of calculate_cost)
\* with a message; charge_credits is not called, no page is extracted,
\* nothing is written or uploaded.
C3_BadEndPageStopsInValidation ==
    (Len(documents) >= 1 /\ BadEndPage) =>
        /\ pc \in {"validate", "calculate_cost", "exit"}
        /\ pc = "calculate_cost" => doc_index = 1
        /\ pc = "exit" => message # ""
        /\ charge_calls = << >>
        /\ trace = << >>
        /\ on_disk = {}
        /\ ~uploaded

C3_Witness ==
    /\ pc = "exit"
    /\ Len(documents) >= 1
    /\ data.has_end_page
    /\ data.end_page < data.start_page
    /\ message = MsgCostEndSmaller
    /\ exit_code = 1

\* C4: whenever main exits because start_page < 1, charge_credits has not
\* been called and no page has been extracted.
C4_NoChargeWhenStartLessThanOne ==
    (pc = "exit" /\ message = MsgStartLessThanOne) =>
        /\ charge_calls = << >>
        /\ Idx("extract") = {}

ChargeFailed == \E i \in 1..Len(charge_calls) : ~charge_calls[i].ok

\* C5: a failed charge_credits ends the run with the insufficient-credits
\* message before any extract, any write to a per-document file and any
\* upload; every extract call is preceded by exactly one charge_credits
\* call, which succeeded (it is the first call of the run).
C5_ChargeGatesExtraction ==
    /\ ChargeFailed =>
          /\ pc = "exit"
          /\ message = MsgInsufficient
          /\ Idx("extract") = {}
          /\ Idx("append") = {}
          /\ on_disk = {}
          /\ zip_entries = << >>
          /\ ~uploaded
    /\ Idx("extract") # {} =>
          /\ Len(charge_calls) = 1
          /\ charge_calls[1].ok
          /\ trace[1].op = "charge"
          /\ Idx("charge") = {1}

C5_Witness ==
    /\ ChargeFailed
    /\ pc = "exit"
    /\ message = MsgInsufficient
    /\ Len(documents) >= 1

\* C6: once extract has raised after its last attempt, the run is over:
\* no later extract, append, archive write or upload happens.
C6_NothingAfterRetryExhausted ==
    \A i \in Idx("extract_raised") :
        /\ i = Len(trace)
        /\ pc = "crashed"
        /\ ~uploaded
        /\ \A k \in 1..Len(zip_entries) : zip_entries[k] # trace[i].doc

\* retries exhausted on a page after an earlier page of the document was written
C6_Witness ==
    /\ error = "RetryError"
    /\ LastOp = "extract_raised"
    /\ d \in on_disk
    /\ ~uploaded

\* C7: an extract call issues at most 6 completion calls: it tries again
\* only while fewer than 6 were made, a success returns at once, and the
\* 6th failure raises.
C7_AtMostSixAttempts ==
    /\ calls <= 6
    /\ pc = "extract" => (calls < 6 /\ calls = attempt_number - 1)
    /\ pc = "save" => (LastOp = "extract_returned" /\ calls \in 1..6)
    /\ LastOp = "extract_raised" => calls = 6

C7_Witness ==
    /\ LastOp = "extract_raised"
    /\ calls = 6
    /\ error = "RetryError"

JustAppendedEmpty == LastOp = "append" /\ tables = << >>

\* C8 as stated: for an empty table list only the page marker is written.
C8_OnlyPageMarkerWritten ==
    JustAppendedEmpty =>
        /\ Len(last_written) = 1
        /\ last_written[1].kind \in {"csv_page_number", "json_page_number"}
        /\ last_written[1].n = trace[Len(trace)].page

\* C8 (amended): for an empty table list the append writes the page marker
\* and no caption or data row: the marker alone in csv mode, the marker
\* followed by an empty JSON array and three newlines in json mode; the run
\* does not fail and goes on with the next page.
C8_EmptyListWritesMarkerOnly ==
    JustAppendedEmpty =>
        LET p == trace[Len(trace)].page
            k == trace[Len(trace)].doc
            n == Len(files[k])
            m == Len(last_written)
        IN /\ data.output_format = "csv" =>
                 last_written = <<Item("csv_page_number", p, << >>, << >>)>>
           /\ data.output_format = "json" =>
                 last_written = <<Item("json_page_number", p, << >>, << >>),
                                  Item("json_dump", 0, << >>, << >>),
                                  Item("newline", 0, << >>, << >>),
                                  Item("newline", 0, << >>, << >>),
                                  Item("newline", 0, << >>, << >>)>>
           /\ \A i \in 1..m : last_written[i].kind # "csv_row"
           /\ n >= m
           /\ SubSeq(files[k], n - m + 1, n) = last_written
           /\ error = ""
           /\ pc \in {"for_page", "zip_write"}
           /\ page_number = p + 1

\* a json run whose only page gave no table was uploaded
C8_Witness ==
    /\ uploaded
    /\ data.output_format = "json"
    /\ Len(documents) = 1
    /\ Len(files[1]) = 5
    /\ files[1][2].kind = "json_dump"
    /\ files[1][2].json = << >>

\* C9: a result is appended at most once per (document, page), exactly once
\* for every pair of the effective range when the run reaches upload; the
\* appends of a document are in ascending page order, each right after the
\* successful extract of its page; a document's file is added to the archive
\* after all its pages were appended and before the next document's first
\* extract.  The trace only grows, so each call is judged, when it is the
\* latest one, against all the calls before it.
C9_AppendOncePerPageInOrder ==
    LET n == Len(trace)
        last == trace[n]
    IN /\ LastOp = "append" =>
             /\ n > 1
             /\ trace[n - 1] = Event("extract_returned", last.doc, last.page)
             /\ \A i \in 1..(n - 1) :
                   /\ (trace[i].op = "append" /\ trace[i].doc = last.doc)
                         => trace[i].page < last.page
                   /\ trace[i].op = "zip" => trace[i].doc < last.doc
       /\ LastOp = "extract" =>
             /\ \A k \in 1..(last.doc - 1) :
                   \E i \in 1..(n - 1) : trace[i] = Event("zip", k, 0)
             /\ \A i \in 1..(n - 1) :
                   trace[i].op = "zip" => trace[i].doc < last.doc
       /\ LastOp = "zip" =>
             /\ \A p \in EffectiveRange(last.doc) :
                   \E i \in 1..(n - 1) : trace[i] = Event("append", last.doc, p)
             /\ \A i \in 1..(n - 1) :
                   trace[i].op \in {"append", "extract", "zip"}
                       => trace[i].doc <= last.doc
       /\ uploaded =>
             \A k \in 1..Len(documents) : \A p \in EffectiveRange(k) :
                 Cardinality({i \in Idx("append") :
                                 trace[i].doc = k /\ trace[i].page = p}) = 1

C9_Witness ==
    /\ uploaded
    /\ Len(documents) = 2
    /\ Cardinality(Idx("append")) >= 3
    /\ Cardinality(Idx("zip")) = 2

\* C10: in a run that reaches upload the amount charged is 7 times the
\* number of (document, page) pairs on which extract was called, and is
\* not negative.
C10_ChargeMatchesExtraction ==
    uploaded =>
        /\ Len(charge_calls) = 1
        /\ charge_calls[1].amount = 7 * Cardinality(Idx("extract"))
        /\ charge_calls[1].amount >= 0

====
